---- MODULE Spec2Model ----
(***************************************************************************)
(* Species-link insertion of bioline-processor (src/species_link.py).      *)
(*                                                                         *)
(* A Python str is modelled as a sequence of one-character strings, so     *)
(* that slicing, regular-expression matching and splicing are computed on  *)
(* characters as the code computes them.  Spans are Python spans: 0-based, *)
(* half-open.                                                              *)
(***************************************************************************)
EXTENDS Integers, Sequences, FiniteSets, TLC

(***************************************************************************)
(* Characters and Python string primitives                                 *)
(***************************************************************************)

UpperCase == <<"A", "B", "C", "D", "E", "F", "G", "H", "I", "J", "K", "L", "M",
               "N", "O", "P", "Q", "R", "S", "T", "U", "V", "W", "X", "Y", "Z">>

LowerCase == <<"a", "b", "c", "d", "e", "f", "g", "h", "i", "j", "k", "l", "m",
               "n", "o", "p", "q", "r", "s", "t", "u", "v", "w", "x", "y", "z">>

LowerTable == [c \in {UpperCase[i] : i \in 1..Len(UpperCase)} |->
                 LowerCase[CHOOSE i \in 1..Len(UpperCase) : UpperCase[i] = c]]

\* str.lower() on one character; also the case folding of re.IGNORECASE
Lower(c) == IF c \in DOMAIN LowerTable THEN LowerTable[c] ELSE c

\* s.lower()
LowerStr(s) == [i \in 1..Len(s) |-> Lower(s[i])]

\* the characters str.split() with no argument treats as separators
Whitespace == {" ", "\n", "\t"}

\* text[s:e]
Slice(text, s, e) == SubSeq(text, s + 1, e)

\* text[p:p+len(lit)] == lit, compared case-insensitively when ci
StartsWithAt(text, p, lit, ci) ==
    /\ p + Len(lit) <= Len(text)
    /\ \A k \in 1..Len(lit) :
         IF ci THEN Lower(text[p + k]) = Lower(lit[k]) ELSE text[p + k] = lit[k]

\* sub in text
Contains(text, sub) ==
    \E p \in 0..(Len(text) - Len(sub)) : StartsWithAt(text, p, sub, FALSE)

\* text.replace(old, new) for a one-character old and new
ReplaceChar(text, old, new) ==
    [i \in 1..Len(text) |-> IF text[i] = old THEN new ELSE text[i]]

\* text.replace(old, new): non-overlapping occurrences, left to right
RECURSIVE ReplaceAll(_, _, _)
ReplaceAll(text, old, new) ==
    IF Len(old) = 0 \/ ~Contains(text, old) THEN text
    ELSE LET p == CHOOSE x \in 0..(Len(text) - Len(old)) :
                    /\ StartsWithAt(text, x, old, FALSE)
                    /\ \A y \in 0..(x - 1) : ~StartsWithAt(text, y, old, FALSE)
         IN  Slice(text, 0, p) \o new
                 \o ReplaceAll(Slice(text, p + Len(old), Len(text)), old, new)

\* text.split(sep) for a one-character sep: empty fields are kept
RECURSIVE SplitOn(_, _)
SplitOn(text, sep) ==
    IF \A i \in 1..Len(text) : text[i] # sep THEN <<text>>
    ELSE LET i == CHOOSE k \in 1..Len(text) :
                    text[k] = sep /\ \A m \in 1..(k - 1) : text[m] # sep
         IN  <<SubSeq(text, 1, i - 1)>> \o SplitOn(SubSeq(text, i + 1, Len(text)), sep)

\* text.split(): fields are the maximal runs of non-whitespace characters
RECURSIVE SplitWs(_)
SplitWs(text) ==
    IF \A i \in 1..Len(text) : text[i] \in Whitespace THEN <<>>
    ELSE LET b == CHOOSE k \in 1..Len(text) :
                    text[k] \notin Whitespace
                    /\ \A m \in 1..(k - 1) : text[m] \in Whitespace
             e == CHOOSE k \in b..Len(text) :
                    /\ \A m \in b..k : text[m] \notin Whitespace
                    /\ (k = Len(text) \/ text[k + 1] \in Whitespace)
         IN  <<SubSeq(text, b, e)>> \o SplitWs(SubSeq(text, e + 1, Len(text)))

\* sep.join(parts)
RECURSIVE Join(_, _)
Join(parts, sep) ==
    IF Len(parts) = 0 THEN <<>>
    ELSE IF Len(parts) = 1 THEN parts[1]
    ELSE parts[1] \o sep \o Join(Tail(parts), sep)

(***************************************************************************)
(* remove_blank_chars                                                      *)
(***************************************************************************)

\* while '  ' in text: text = text.replace('  ', ' ')
RECURSIVE CollapseSpaces(_)
CollapseSpaces(text) ==
    IF Contains(text, <<" ", " ">>)
    THEN CollapseSpaces(ReplaceAll(text, <<" ", " ">>, <<" ">>))
    ELSE text

remove_blank_chars(text) == CollapseSpaces(ReplaceChar(text, "\n", " "))

(***************************************************************************)
(* The link vocabulary                                                     *)
(***************************************************************************)

\* <taxon genus="
TaxonGenus == <<"<", "t", "a", "x", "o", "n", " ", "g", "e", "n", "u", "s", "=", "\"">>
\* " species="
AttrSpecies == <<"\"", " ", "s", "p", "e", "c", "i", "e", "s", "=", "\"">>
\* " sub-prefix="
AttrSubPrefix == <<"\"", " ", "s", "u", "b", "-", "p", "r", "e", "f", "i", "x", "=", "\"">>
\* " sub-species="
AttrSubSpecies == <<"\"", " ", "s", "u", "b", "-", "s", "p", "e", "c", "i", "e", "s", "=", "\"">>
\* ">
AttrClose == <<"\"", ">">>
\* <sp> and </sp>
SpOpen == <<"<", "s", "p", ">">>
SpClose == <<"<", "/", "s", "p", ">">>
\* </taxon>
TaxonClose == <<"<", "/", "t", "a", "x", "o", "n", ">">>
\* <i> and </i>
IOpen == <<"<", "i", ">">>
IClose == <<"<", "/", "i", ">">>

\* <taxon genus="{g}" species="{s}" sub-prefix="{p}" sub-species="{ss}">
TaxonTag(g, s, p, ss) ==
    TaxonGenus \o g \o AttrSpecies \o s \o AttrSubPrefix \o p
               \o AttrSubSpecies \o ss \o AttrClose

\* <sp>{name}</sp>
Sp(name) == SpOpen \o name \o SpClose

\* f'<i>{spec}</i>'
Emphasis(spec) == IOpen \o spec \o IClose

(***************************************************************************)
(* get_species_link and the link shapes                                    *)
(***************************************************************************)

\* sp. and spp.
RankSp == <<"s", "p", ".">>
RankSpp == <<"s", "p", "p", ".">>

\* a comparison that forgets .lower()
is_enclosed_match_CaseSensitive(s1, s2) ==
    IF Len(s2) # Len(s1) + 2 THEN FALSE
    ELSE s1 = Slice(s2, 1, Len(s2) - 1)

is_enclosed_match(s1, s2) ==
    IF Len(s2) # Len(s1) + 2 THEN FALSE
    ELSE LowerStr(s1) = LowerStr(Slice(s2, 1, Len(s2) - 1))

is_parenthetical(s) ==
    IF Len(s) < 2 THEN FALSE
    ELSE s[1] = "(" /\ s[Len(s)] = ")"

genus_spp(tokens) ==
    LET genus == tokens[1]
    IN  TaxonTag(genus, <<>>, <<>>, <<>>) \o Sp(genus) \o TaxonClose

genus_species(tokens) ==
    LET genus == tokens[1]
        species == tokens[2]
    IN  TaxonTag(genus, species, <<>>, <<>>)
            \o Sp(genus) \o <<" ">> \o Sp(species) \o TaxonClose

genus_species_subprefix_subspecies(tokens) ==
    LET genus == tokens[1]
        species == tokens[2]
        subprefix == tokens[3]
        subspecies == tokens[4]
    IN  TaxonTag(genus, species, subprefix, subspecies)
            \o Sp(genus) \o <<" ">> \o Sp(species) \o <<" ">> \o subprefix
            \o <<" ">> \o Sp(subspecies) \o TaxonClose

genus_species_subspecies(tokens) ==
    ReplaceAll(
        genus_species_subprefix_subspecies(<<tokens[1], tokens[2], <<>>, tokens[3]>>),
        <<" ", " ">>, <<" ">>)

genus_PARgenusPAR_subspecies(tokens) ==
    LET genus == tokens[1]
        species == Slice(tokens[2], 1, Len(tokens[2]) - 1)
        subspecies == tokens[3]
    IN  TaxonTag(genus, species, <<>>, subspecies)
            \o Sp(genus) \o <<" ">> \o Sp(tokens[2]) \o <<" ">> \o Sp(subspecies)
            \o TaxonClose

genus_PARnamePAR_species(tokens) ==
    LET genus == tokens[1]
        name == tokens[2]
        species == tokens[3]
    IN  TaxonTag(genus, species, <<>>, <<>>)
            \o Sp(genus) \o <<" ">> \o name \o <<" ">> \o Sp(species) \o TaxonClose

\* a merge that puts the connector into the sub-prefix attribute as well
genus_species_MERGE_subspecies_PrefixAttr(tokens) ==
    LET merge == Join(SubSeq(tokens, 3, Len(tokens) - 1), <<" ">>)
    IN  TaxonTag(tokens[1], tokens[2], merge, tokens[Len(tokens)])
            \o Sp(tokens[1]) \o <<" ">> \o Sp(tokens[2]) \o <<" ">> \o merge
            \o <<" ">> \o Sp(tokens[Len(tokens)]) \o TaxonClose

genus_species_MERGE_subspecies(tokens) ==
    LET genus == tokens[1]
        species == tokens[2]
        merge == Join(SubSeq(tokens, 3, Len(tokens) - 1), <<" ">>)
        subspecies == tokens[Len(tokens)]
    IN  TaxonTag(genus, species, <<>>, subspecies)
            \o Sp(genus) \o <<" ">> \o Sp(species) \o <<" ">> \o merge
            \o <<" ">> \o Sp(subspecies) \o TaxonClose

\* a 3-token branch without the test for the rank markers
ThreeTokenLink_NoRankTest(link, tokens) ==
    IF is_enclosed_match(tokens[1], tokens[2])
    THEN genus_PARgenusPAR_subspecies(tokens)
    ELSE IF is_parenthetical(tokens[2])
         THEN genus_PARnamePAR_species(tokens)
         ELSE genus_species_subspecies(tokens)

\* the branch of get_species_link for 3 tokens
ThreeTokenLink(link, tokens) ==
    IF tokens[2] \notin {RankSp, RankSpp}
    THEN IF is_enclosed_match(tokens[1], tokens[2])
         THEN genus_PARgenusPAR_subspecies(tokens)
         ELSE IF is_parenthetical(tokens[2])
              THEN genus_PARnamePAR_species(tokens)
              ELSE genus_species_subspecies(tokens)
    ELSE link

\* a 2-token branch that forgets the rank markers
TwoTokenLink_KeepsRank(tokens) == genus_species(tokens)

\* the branch of get_species_link for 2 tokens
TwoTokenLink(tokens) ==
    IF tokens[2] = RankSp \/ tokens[2] = RankSpp
    THEN genus_spp(tokens)
    ELSE genus_species(tokens)

get_species_link(link) ==
    LET tokens == SplitWs(link)
    IN  IF Len(tokens) = 1 THEN genus_spp(tokens)
        ELSE IF Len(tokens) = 2 THEN TwoTokenLink(tokens)
        ELSE IF Len(tokens) = 3 THEN ThreeTokenLink(link, tokens)
        ELSE IF Len(tokens) = 4 THEN genus_species_subprefix_subspecies(tokens)
        ELSE IF Len(tokens) > 4 THEN genus_species_MERGE_subspecies(tokens)
        ELSE link

(***************************************************************************)
(* is_species_link and remove_species_link                                 *)
(***************************************************************************)

\* '.' matches every character of text[p:q]: none of them is a newline
DotRun(text, p, q) == \A i \in (p + 1)..q : text[i] # "\n"

\* '$': the end of text, or just before a newline that ends text
AtDollar(text, e) ==
    \/ e = Len(text)
    \/ e = Len(text) - 1 /\ text[Len(text)] = "\n"

\* where a match of lits[k] '.*' lits[k+1] '.*' ... lits[n] that starts at p
\* ends, -1 if there is none; each '.*' is greedy: it takes the longest run
\* after which the rest of the pattern still matches; with dollar the pattern
\* ends in '$'
RECURSIVE DotStarSeqEnd(_, _, _, _, _)
DotStarSeqEnd(text, p, lits, k, dollar) ==
    IF ~StartsWithAt(text, p, lits[k], FALSE) THEN -1
    ELSE LET e == p + Len(lits[k])
         IN  IF k = Len(lits)
             THEN IF dollar /\ ~AtDollar(text, e) THEN -1 ELSE e
             ELSE LET Q == { q \in e..Len(text) :
                               /\ StartsWithAt(text, q, lits[k + 1], FALSE)
                               /\ DotRun(text, e, q)
                               /\ DotStarSeqEnd(text, q, lits, k + 1, dollar) # -1 }
                  IN  IF Q = {} THEN -1
                      ELSE DotStarSeqEnd(text,
                                         CHOOSE q \in Q : \A r \in Q : r <= q,
                                         lits, k + 1, dollar)

\* re.sub(pattern, '', text) for such a pattern: the matches are removed,
\* leftmost first, not overlapping
RECURSIVE DotStarSeqRemove(_, _)
DotStarSeqRemove(text, lits) ==
    LET P == { p \in 0..Len(text) : DotStarSeqEnd(text, p, lits, 1, FALSE) # -1 }
    IN  IF P = {} THEN text
        ELSE LET p == CHOOSE x \in P : \A y \in P : x <= y
                 e == DotStarSeqEnd(text, p, lits, 1, FALSE)
             IN  Slice(text, 0, p) \o DotStarSeqRemove(Slice(text, e, Len(text)), lits)

\* re.sub(r'<\/?sp>', '', text): one scan that removes <sp> and </sp>
RECURSIVE RemoveSpTags(_)
RemoveSpTags(text) ==
    LET At(p) == IF StartsWithAt(text, p, SpOpen, FALSE) THEN Len(SpOpen)
                 ELSE IF StartsWithAt(text, p, SpClose, FALSE) THEN Len(SpClose)
                 ELSE 0
        P == { p \in 0..Len(text) : At(p) > 0 }
    IN  IF P = {} THEN text
        ELSE LET p == CHOOSE x \in P : \A y \in P : x <= y
             IN  Slice(text, 0, p) \o RemoveSpTags(Slice(text, p + At(p), Len(text)))

\* the newline and the 8 spaces that the triple-quoted pattern of
\* remove_species_link holds between  sub-prefix=  and the quote
PatternBreak == <<"\n", " ", " ", " ", " ", " ", " ", " ", " ">>

\* " sub-prefix= without its closing quote
AttrSubPrefixOpen == SubSeq(AttrSubPrefix, 1, Len(AttrSubPrefix) - 1)

\* the literals of r'^<taxon genus=".*" species=".*" sub-prefix=".*"
\* sub-species=".*">.*<\/taxon>$' between its '.*'
LinkPattern ==
    <<TaxonGenus, AttrSpecies, AttrSubPrefix, AttrSubSpecies, AttrClose, TaxonClose>>

\* the literals of the pattern of remove_species_link's first re.sub
OpenTagPattern ==
    <<TaxonGenus, AttrSpecies, AttrSubPrefixOpen \o PatternBreak \o <<"\"">>,
      AttrSubSpecies, AttrClose>>

\* re.match(...) is not None
is_species_link(text) == DotStarSeqEnd(text, 0, LinkPattern, 1, TRUE) # -1

remove_species_link(text) ==
    ReplaceAll(RemoveSpTags(DotStarSeqRemove(text, OpenTagPattern)), TaxonClose, <<>>)

(***************************************************************************)
(* re.finditer(re.escape(lit1) + r' *\n? *' + re.escape(lit2), text,       *)
(*             re.IGNORECASE)                                              *)
(***************************************************************************)

\* the number of consecutive spaces at text[p:]
SpaceRun(text, p) ==
    CHOOSE k \in 0..(Len(text) - p) :
        /\ \A i \in 1..k : text[p + i] = " "
        /\ (k = Len(text) - p \/ text[p + k + 1] # " ")

\* the ways ' *\n? *' followed by lit2 matches at text[q:]: <<a, n, b>> is a
\* spaces, n newlines (0 or 1), b spaces
SepChoices(text, q, lit2) ==
    UNION { UNION { { <<a, n, b>> : b \in { bb \in 0..SpaceRun(text, q + a + n) :
                                             StartsWithAt(text, q + a + n + bb, lit2, TRUE) } }
                    : n \in { nn \in {0, 1} :
                                nn = 1 => (q + a < Len(text) /\ text[q + a + 1] = "\n") } }
            : a \in 0..SpaceRun(text, q) }

\* the choice the backtracking matcher finds first: each quantifier is greedy
SepFirst(text, q, lit2) ==
    LET C == SepChoices(text, q, lit2)
    IN  CHOOSE c \in C : \A d \in C :
            \/ c[1] > d[1]
            \/ c[1] = d[1] /\ c[2] > d[2]
            \/ c[1] = d[1] /\ c[2] = d[2] /\ c[3] >= d[3]

\* the end of the match that starts at p, or -1 when none starts there
MatchEnd(text, p, lit1, lit2) ==
    IF ~StartsWithAt(text, p, lit1, TRUE) THEN -1
    ELSE LET q == p + Len(lit1)
         IN  IF SepChoices(text, q, lit2) = {} THEN -1
             ELSE LET c == SepFirst(text, q, lit2)
                  IN  q + c[1] + c[2] + c[3] + Len(lit2)

\* finditer's scan over the candidate spans M (one per start): the leftmost
\* match at or after `from`, then on from its end
RECURSIVE Leftmost(_, _)
Leftmost(M, from) ==
    LET S == { m \in M : m[1] >= from }
    IN  IF S = {} THEN <<>>
        ELSE LET m == CHOOSE x \in S : \A y \in S : x[1] <= y[1]
             IN  <<m>> \o Leftmost(M, IF m[2] > m[1] THEN m[2] ELSE m[1] + 1)

\* [match.span() for match in re.finditer(...)]
FindIter(text, lit1, lit2) ==
    Leftmost({ <<p, MatchEnd(text, p, lit1, lit2)>> :
                 p \in { q \in 0..(Len(text) - 1) : MatchEnd(text, q, lit1, lit2) # -1 } }, 0)

(***************************************************************************)
(* One species entry of common_species.txt                                 *)
(***************************************************************************)

\* re.search(r'.* .*', species)
HasSpace(species) == Contains(species, <<" ">>)

\* species[0] == '*'
IsPseudospecies(species) == species[1] = "*"

\* parts = species.split(' '), after the asterisk is removed
Parts(species) ==
    SplitOn(IF IsPseudospecies(species) THEN Tail(species) ELSE species, " ")

\* f'{parts[0][0]}. {" ".join(parts[1:])}'; parts[0][0] raises IndexError on ''
ShortFormRaises(parts) == Len(parts[1]) = 0

ShortForm(parts) == <<parts[1][1], ".", " ">> \o Join(Tail(parts), <<" ">>)

(***************************************************************************)
(* genus_to_species: a dict is a sequence of [key, eps] in insertion order *)
(***************************************************************************)

HasKey(index, k) == \E i \in 1..Len(index) : index[i].key = k

KeyPos(index, k) == CHOOSE i \in 1..Len(index) : index[i].key = k

\* an append without the membership test
AppendEpithet_Always(eps, epithet) == Append(eps, epithet)

\* if parts[1] not in d[key]: d[key].append(parts[1])
AppendEpithet(eps, epithet) ==
    IF \E i \in 1..Len(eps) : eps[i] = epithet THEN eps ELSE Append(eps, epithet)

\* "Fill in the genus_to_species dict"
Register(index, pseudospecies, parts) ==
    LET k == IF pseudospecies THEN <<"*">> \o parts[1] ELSE parts[1]
        d == IF HasKey(index, k) THEN index ELSE Append(index, [key |-> k, eps |-> <<>>])
    IN  [d EXCEPT ![KeyPos(d, k)].eps = AppendEpithet(@, parts[2])]

(***************************************************************************)
(* The replacement passes                                                  *)
(***************************************************************************)

\* text[:span[0]] + repl + text[span[1]:]
Splice(text, span, repl) ==
    Slice(text, 0, span[1]) \o repl \o Slice(text, span[2], Len(text))

\* a loop that runs over range(len(matches)) instead
PassOrder_Ascending(n) == [k \in 1..n |-> k - 1]

\* range(len(matches) - 1, -1, -1)
PassOrder(n) == [k \in 1..n |-> n - k]

\* a title condition that forgets i == 0
TitleLinkFirst_EveryMatch(i, pseudospecies) == ~pseudospecies

\* a title condition that forgets the pseudospecies flag
TitleLinkFirst_IgnoresPseudo(i, pseudospecies) == i = 0

\* title: i == 0 and not pseudospecies
TitleLinkFirst(i, pseudospecies) == i = 0 /\ ~pseudospecies

\* an abstract condition without the pseudospecies test
AbstractLinkFirst_IgnoresPseudo(i, pseudospecies, spec, index) ==
    i = 0 /\ ~HasKey(index, spec)

\* abstract: i == 0 and not pseudospecies and spec not in genus_to_species[j]
AbstractLinkFirst(i, pseudospecies, spec, index) ==
    i = 0 /\ ~pseudospecies /\ ~HasKey(index, spec)

\* what one full-name match is replaced by
FullReplacement(links, spec) ==
    IF links THEN get_species_link(spec) ELSE Emphasis(spec)

\* a short-form pass that links as the full-name pass does
ShortReplacement_Links(spec) == get_species_link(spec)

\* what one short-form match is replaced by
ShortReplacement(spec) == Emphasis(spec)

\* the loop over the full-name matches, from position k of its order on
RECURSIVE FullLoop(_, _, _, _, _, _)
FullLoop(text, matches, k, pseudospecies, isAbstract, index) ==
    IF k > Len(matches) THEN text
    ELSE LET i == PassOrder(Len(matches))[k]
             span == matches[i + 1]
             spec == remove_blank_chars(Slice(text, span[1], span[2]))
             links == IF isAbstract
                      THEN AbstractLinkFirst(i, pseudospecies, spec, index)
                      ELSE TitleLinkFirst(i, pseudospecies)
         IN  FullLoop(Splice(text, span, FullReplacement(links, spec)),
                      matches, k + 1, pseudospecies, isAbstract, index)

\* the loop over the short-form matches
RECURSIVE ShortLoop(_, _, _)
ShortLoop(text, short_matches, k) ==
    IF k > Len(short_matches) THEN text
    ELSE LET i == PassOrder(Len(short_matches))[k]
             span == short_matches[i + 1]
             spec == remove_blank_chars(Slice(text, span[1], span[2]))
         IN  ShortLoop(Splice(text, span, ShortReplacement(spec)), short_matches, k + 1)

\* the full-name matches of an entry in text
FullMatches(text, parts) == FindIter(text, parts[1], parts[2])

\* the short-form matches of an entry in text
ShortMatches(text, parts) ==
    LET short_parts == SplitOn(ShortForm(parts), " ")
    IN  IF Len(short_parts) > 1
        THEN FindIter(text, short_parts[1], Join(Tail(parts), <<" ">>))
        ELSE <<>>

(***************************************************************************)
(* PART 2.2: the genus pass over one abstract                              *)
(***************************************************************************)

\* master_reg as built by the loop over range(len(eps) - 1): the alternatives
\* appended with '|', and whether some iteration took the branch that appends
\* the closing ')"'.  No i of the range has i >= len(eps) - 1, so the group
\* stays open whatever eps is.
MasterReg(genus, eps) ==
    [genus  |-> genus,
     alts   |-> [i \in 1..(Len(eps) - 1) |-> eps[i]],
     closed |-> \E i \in 0..(Len(eps) - 2) : ~(i < Len(eps) - 1)]

\* re.finditer(master_reg, ...) raises re.error (missing ')') on an open group
MasterRegCompiles(reg) == reg.closed

\* the end of the match of master_reg that starts at p, or -1
MasterMatchEnd(text, p, reg) ==
    LET prefix == TaxonGenus \o reg.genus \o AttrSpecies
        fits == { n \in 1..Len(reg.alts) :
                    StartsWithAt(text, p + Len(prefix), reg.alts[n] \o <<"\"">>, TRUE) }
    IN  IF StartsWithAt(text, p, prefix, TRUE) /\ fits # {}
        THEN p + Len(prefix) + Len(reg.alts[CHOOSE n \in fits : \A m \in fits : n <= m]) + 1
        ELSE -1

\* "If first occurrence of genus precedes first species link for it, add another link"
GenusBackReference(text, genus, reg) ==
    LET matches == Leftmost({ <<p, MatchEnd2>> \in
                              { <<q, MasterMatchEnd(text, q, reg)>> : q \in 0..(Len(text) - 1) } :
                              MatchEnd2 # -1 }, 0)
    IN  IF Len(matches) > 0
        THEN LET head == Slice(text, 0, matches[1][1])
                 found == { p \in 0..Len(head) : StartsWithAt(head, p, genus, TRUE) }
             IN  IF found # {}
                 THEN LET f0 == CHOOSE x \in found : \A y \in found : x <= y
                          f1 == f0 + Len(genus)
                      IN  IF f1 < matches[1][1]
                          THEN Splice(text, <<f0, f1>>, get_species_link(Slice(text, f0, f1)))
                          ELSE text
                 ELSE text
        ELSE text

\* the characters of [ \n\.,\?\!]
GenusBoundary == {" ", "\n", ".", ",", "?", "!"}

\* the spans of r' ' + genus.replace('*', '') + r'[ \n\.,\?\!]'
GenusMatches(text, genus) ==
    LET g == <<" ">> \o ReplaceAll(genus, <<"*">>, <<>>)
    IN  Leftmost({ <<p, p + Len(g) + 1>> :
                     p \in { q \in 0..(Len(text) - 1) :
                               /\ StartsWithAt(text, q, g, TRUE)
                               /\ q + Len(g) < Len(text)
                               /\ text[q + Len(g) + 1] \in GenusBoundary } }, 0)

\* "Italicize subsequent occurrences of just the genus"
RECURSIVE GenusItalicize(_, _, _)
GenusItalicize(text, matches, k) ==
    IF k > Len(matches) THEN text
    ELSE LET i == PassOrder(Len(matches))[k]
             span == matches[i + 1]
         IN  GenusItalicize(
                 Slice(text, 0, span[1]) \o <<" ">> \o IOpen
                     \o Slice(text, span[1] + 1, span[2] - 1) \o IClose
                     \o <<text[span[2]]>> \o Slice(text, span[2], Len(text)),
                 matches, k + 1)

\* for genus in genus_to_species[j].keys(): the text it leaves, and whether
\* building the matcher raised
RECURSIVE GenusLoop(_, _, _)
GenusLoop(text, index, k) ==
    IF k > Len(index) THEN [text |-> text, raised |-> FALSE]
    ELSE LET genus == index[k].key
             reg == MasterReg(genus, index[k].eps)
         IN  IF ~MasterRegCompiles(reg) THEN [text |-> text, raised |-> TRUE]
             ELSE LET linked == GenusBackReference(text, genus, reg)
                  IN  GenusLoop(GenusItalicize(linked, GenusMatches(linked, genus), 1),
                                index, k + 1)

(***************************************************************************)
(* Inputs                                                                  *)
(***************************************************************************)

\* the longest species list
MaxSpecies == 2
\* the most title nodes and the most abstract nodes of a document
MaxTitles == 2
MaxAbstracts == 2

\* lines of common_species.txt: a species, the same as a pseudospecies, a
\* species whose genus and epithet written together read as the genus of the
\* first, a genus alone, a genus followed by a space, an epithet after a space
LinePool ==
    << <<"A", "b", " ", "c">>,
       <<"*", "A", "b", " ", "c">>,
       <<"A", " ", "b">>,
       <<"A", "b">>,
       <<"A", "b", " ">>,
       <<" ", "c">> >>

\* texts of title and abstract nodes
TextPool ==
    << <<"A", "b", " ", "c", ",", " ", "a", "b", "\n", "c", ";", " ", "A", ".", " ", "c">>,
       <<"A", "b", ",", " ", "A", "b", " ", "c", ".", " ", "A", "b", " ", "d">>,
       <<"a", ".", " ", " ", "c", " ", "A", "b", " ", " ", "c", " ", "A", "B", " ", "c">>,
       <<"A", "b", "c", " ", "a", "b">>,
       <<"x">> >>

PoolText(n) == TextPool[((n - 1) % Len(TextPool)) + 1]

SpeciesLists ==
    UNION { [1..n -> { LinePool[i] : i \in 1..Len(LinePool) }] : n \in 0..MaxSpecies }

(***************************************************************************)
(* insert_species_links as a state machine                                 *)
(***************************************************************************)

VARIABLES
    species_list,       \* the lines of common_species.txt
    titles,             \* title.text of each title node, in document order
    abstracts,          \* abstract.text of each abstract node
    genus_to_species,   \* the list of dicts
    pc,                 \* where insert_species_links is
    t,                  \* the titles begun so far
    a,                  \* the abstracts begun so far
    s,                  \* the position in species_list of the current block's loop
    j,                  \* the index the abstract part reads genus_to_species at
    err,                \* the exception that ended the call, if any
    last,               \* the pass just made: its kind, the text before it, its spans
    suppressed,         \* whether line 154's index test kept a first match of the
                        \* current abstract from being linked
    tokens_in,          \* the words of the phrase handed to get_species_link
    link,               \* get_species_link's parameter, then its return value
    lpc,                \* where the call of get_species_link is
    region,             \* view.substr(region): the text selected in the editor
    edits,              \* what the selection held before each run of the command
    blank_in,           \* the argument of a call of remove_blank_chars
    blank_text,         \* its local text
    bpc,                \* where that call is
    folder,             \* the XML files of the folder, as they are on disk
    config,             \* the journal configuration and common_species.txt
    root,               \* the parsed tree of the file being processed
    fi,                 \* the files of the folder taken so far in this run
    ei,                 \* the position of root.iter()
    dpc,                \* where process.py is
    derr,               \* the exception that ended the run, if any
    file_to_volume,     \* the file names entered into the discrepancy dicts
    druns,              \* the runs of process.py started
    disk_before         \* the folder as it was when the current run started

vars == <<species_list, titles, abstracts, genus_to_species, pc, t, a, s, j, err, last,
          suppressed, tokens_in, link, lpc, region, edits, blank_in, blank_text, bpc,
          folder, config, root, fi, ei, dpc, derr, file_to_volume, druns, disk_before>>

insertvars == <<species_list, titles, abstracts, genus_to_species, pc, t, a, s, j, err,
                last, suppressed>>

linkvars == <<tokens_in, link, lpc>>

pluginvars == <<region, edits>>

blankvars == <<blank_in, blank_text, bpc>>

drivervars == <<folder, config, root, fi, ei, dpc, derr, file_to_volume, druns,
                disk_before>>

\* the variables insert_species_links does not touch
othervars == <<linkvars, pluginvars, blankvars, drivervars>>

\* no selection in the editor
PluginIdle == region = <<>> /\ edits = <<>>

\* no call of remove_blank_chars followed step by step
BlankIdle == blank_in = <<>> /\ blank_text = <<>> /\ bpc = "idle"

\* process.py is not running
DriverIdle ==
    /\ folder = <<>>
    /\ config = <<>>
    /\ root = <<>>
    /\ fi = 0
    /\ ei = 0
    /\ dpc = "idle"
    /\ derr = "none"
    /\ file_to_volume = {}
    /\ druns = 0
    /\ disk_before = <<>>

\* last and suppressed are bookkeeping for the properties; the program does
\* not read them
NoPass == [kind |-> "none", ctx |-> "none", before |-> <<>>, spans |-> <<>>,
           pseudospecies |-> FALSE, own |-> -1]

\* the leftmost match of a species is left unlinked by line 154 because its
\* normalised text is a key of the index
Suppresses(text, matches, pseudospecies, index) ==
    /\ Len(matches) > 0
    /\ ~pseudospecies
    /\ HasKey(index, remove_blank_chars(Slice(text, matches[1][1], matches[1][2])))

\* where the link that an entry's full-name pass left in text starts, or -1
OwnLink(text, matches) ==
    IF Len(matches) > 0 /\ StartsWithAt(text, matches[1][1], TaxonGenus, FALSE)
    THEN matches[1][1]
    ELSE -1

Init ==
    /\ species_list \in SpeciesLists
    /\ \E base \in 1..Len(TextPool), nt \in 0..MaxTitles, na \in 0..MaxAbstracts :
         /\ titles = [n \in 1..nt |-> PoolText(base + n - 1)]
         /\ abstracts = [n \in 1..na |-> PoolText(base + n - 1)]
    /\ genus_to_species = <<>>
    /\ pc = "titles"
    /\ t = 0
    /\ a = 0
    /\ s = 1
    /\ j = 0
    /\ err = "none"
    /\ last = NoPass
    /\ suppressed = FALSE
    /\ tokens_in = <<>>
    /\ link = <<>>
    /\ lpc = "idle"
    /\ PluginIdle
    /\ BlankIdle
    /\ DriverIdle

\* for title in root.iter('title'): genus_to_species.append(dict())
TitleBegin ==
    /\ pc = "titles"
    /\ t < Len(titles)
    /\ t' = t + 1
    /\ genus_to_species' = Append(genus_to_species, <<>>)
    /\ s' = 1
    /\ pc' = "title_species"
    /\ last' = NoPass
    /\ UNCHANGED <<othervars, suppressed, species_list, titles, abstracts, a, j, err>>

\* if not re.search(r'.* .*', species): continue
TitleSkip ==
    /\ pc = "title_species"
    /\ s <= Len(species_list)
    /\ ~HasSpace(species_list[s])
    /\ s' = s + 1
    /\ last' = NoPass
    /\ UNCHANGED <<othervars, suppressed, species_list, titles, abstracts, genus_to_species, pc, t, a, j, err>>

\* registration, the full-name scan and its replacements, in a title
TitleFull ==
    /\ pc = "title_species"
    /\ s <= Len(species_list)
    /\ HasSpace(species_list[s])
    /\ LET pseudospecies == IsPseudospecies(species_list[s])
           parts == Parts(species_list[s])
           n == Len(genus_to_species)
           index == Register(genus_to_species[n], pseudospecies, parts)
       IN  /\ genus_to_species' = [genus_to_species EXCEPT ![n] = index]
           /\ IF ShortFormRaises(parts)
              THEN /\ pc' = "raised"
                   /\ err' = "IndexError"
                   /\ last' = NoPass
                   /\ UNCHANGED titles
              ELSE LET matches == FullMatches(titles[t], parts)
                   IN  /\ titles' = [titles EXCEPT ![t] =
                                       FullLoop(@, matches, 1, pseudospecies, FALSE, index)]
                       /\ last' = [kind |-> "full", ctx |-> "title", before |-> titles[t],
                                   spans |-> matches, pseudospecies |-> pseudospecies,
                                   own |-> -1]
                       /\ pc' = "title_short"
                       /\ UNCHANGED err
    /\ UNCHANGED <<othervars, suppressed, species_list, abstracts, t, a, s, j>>

\* the short-form scan and its replacements, in a title
TitleShort ==
    /\ pc = "title_short"
    /\ LET parts == Parts(species_list[s])
           short_matches == ShortMatches(titles[t], parts)
       IN  /\ titles' = [titles EXCEPT ![t] = ShortLoop(@, short_matches, 1)]
           /\ last' = [kind |-> "short", ctx |-> "title", before |-> titles[t],
                       spans |-> short_matches,
                       pseudospecies |-> IsPseudospecies(species_list[s]),
                       own |-> OwnLink(titles[t], last.spans)]
    /\ s' = s + 1
    /\ pc' = "title_species"
    /\ UNCHANGED <<othervars, suppressed, species_list, abstracts, genus_to_species, t, a, j, err>>

\* the species loop of a title is exhausted
TitleEnd ==
    /\ pc = "title_species"
    /\ s > Len(species_list)
    /\ pc' = "titles"
    /\ last' = NoPass
    /\ UNCHANGED <<othervars, suppressed, species_list, titles, abstracts, genus_to_species, t, a, s, j, err>>

\* j = 0
TitlesDone ==
    /\ pc = "titles"
    /\ t = Len(titles)
    /\ j' = 0
    /\ pc' = "abstracts"
    /\ last' = NoPass
    /\ UNCHANGED <<othervars, suppressed, species_list, titles, abstracts, genus_to_species, t, a, s, err>>

\* for abstract in root.iter('abstract')
AbstractBegin ==
    /\ pc = "abstracts"
    /\ a < Len(abstracts)
    /\ a' = a + 1
    /\ s' = 1
    /\ pc' = "abstract_species"
    /\ last' = NoPass
    /\ suppressed' = FALSE
    /\ UNCHANGED <<othervars, species_list, titles, abstracts, genus_to_species, t, j, err>>

AbstractSkip ==
    /\ pc = "abstract_species"
    /\ s <= Len(species_list)
    /\ ~HasSpace(species_list[s])
    /\ s' = s + 1
    /\ last' = NoPass
    /\ UNCHANGED <<othervars, suppressed, species_list, titles, abstracts, genus_to_species, pc, t, a, j, err>>

\* registration into genus_to_species[j], the full-name scan and its
\* replacements, in an abstract; genus_to_species[j] raises IndexError when
\* the list has no element j
AbstractFull ==
    /\ pc = "abstract_species"
    /\ s <= Len(species_list)
    /\ HasSpace(species_list[s])
    /\ IF j >= Len(genus_to_species)
       THEN /\ pc' = "raised"
            /\ err' = "IndexError"
            /\ last' = NoPass
            /\ UNCHANGED <<abstracts, genus_to_species, suppressed>>
       ELSE LET pseudospecies == IsPseudospecies(species_list[s])
                parts == Parts(species_list[s])
                index == Register(genus_to_species[j + 1], pseudospecies, parts)
            IN  /\ genus_to_species' = [genus_to_species EXCEPT ![j + 1] = index]
                /\ IF ShortFormRaises(parts)
                   THEN /\ pc' = "raised"
                        /\ err' = "IndexError"
                        /\ last' = NoPass
                        /\ UNCHANGED <<abstracts, suppressed>>
                   ELSE LET matches == FullMatches(abstracts[a], parts)
                        IN  /\ abstracts' = [abstracts EXCEPT ![a] =
                                   FullLoop(@, matches, 1, pseudospecies, TRUE, index)]
                            /\ last' = [kind |-> "full", ctx |-> "abstract",
                                        before |-> abstracts[a], spans |-> matches,
                                        pseudospecies |-> pseudospecies, own |-> -1]
                            /\ suppressed' =
                                 (suppressed \/ Suppresses(abstracts[a], matches,
                                                           pseudospecies, index))
                            /\ pc' = "abstract_short"
                            /\ UNCHANGED err
    /\ UNCHANGED <<othervars, species_list, titles, t, a, s, j>>

AbstractShort ==
    /\ pc = "abstract_short"
    /\ LET parts == Parts(species_list[s])
           short_matches == ShortMatches(abstracts[a], parts)
       IN  /\ abstracts' = [abstracts EXCEPT ![a] = ShortLoop(@, short_matches, 1)]
           /\ last' = [kind |-> "short", ctx |-> "abstract", before |-> abstracts[a],
                       spans |-> short_matches,
                       pseudospecies |-> IsPseudospecies(species_list[s]),
                       own |-> OwnLink(abstracts[a], last.spans)]
    /\ s' = s + 1
    /\ pc' = "abstract_species"
    /\ UNCHANGED <<othervars, suppressed, species_list, titles, genus_to_species, t, a, j, err>>

\* PART 2.2 for the current abstract, once its species loop is exhausted
AbstractGenus ==
    /\ pc = "abstract_species"
    /\ s > Len(species_list)
    /\ IF j >= Len(genus_to_species)
       THEN /\ pc' = "raised"
            /\ err' = "IndexError"
            /\ last' = NoPass
            /\ UNCHANGED abstracts
       ELSE LET r == GenusLoop(abstracts[a], genus_to_species[j + 1], 1)
            IN  /\ abstracts' = [abstracts EXCEPT ![a] = r.text]
                /\ last' = [kind |-> "genus", ctx |-> "abstract", before |-> abstracts[a],
                            spans |-> <<>>, pseudospecies |-> FALSE, own |-> -1]
                /\ IF r.raised
                   THEN pc' = "raised" /\ err' = "re.error"
                   ELSE pc' = "abstracts" /\ UNCHANGED err
    /\ UNCHANGED <<othervars, suppressed, species_list, titles, genus_to_species, t, a, s, j>>

\* both loops are exhausted: insert_species_links returns
Finish ==
    /\ pc = "abstracts"
    /\ a = Len(abstracts)
    /\ pc' = "done"
    /\ last' = NoPass
    /\ UNCHANGED <<othervars, suppressed, species_list, titles, abstracts, genus_to_species, t, a, s, j, err>>

Next ==
    \/ TitleBegin
    \/ TitleSkip
    \/ TitleFull
    \/ TitleShort
    \/ TitleEnd
    \/ TitlesDone
    \/ AbstractBegin
    \/ AbstractSkip
    \/ AbstractFull
    \/ AbstractShort
    \/ AbstractGenus
    \/ Finish

Spec == Init /\ [][Next]_vars

(***************************************************************************)
(* get_species_link applied to a phrase                                    *)
(***************************************************************************)

\* the most words of a phrase
MaxTokens == 5

\* words: a genus, an enclosed wrap of it, a parenthetical, the rank markers,
\* an epithet
TokenPool ==
    << <<"A", "b">>, <<"(", "a", "B", ")">>, <<"(", "x", ")">>,
       <<"s", "p", ".">>, <<"s", "p", "p", ".">>, <<"c">> >>

\* what separates the words of a phrase
Separators == { <<" ">>, <<"\n", " ">> }

Phrases ==
    UNION { [1..n -> { TokenPool[i] : i \in 1..Len(TokenPool) }] : n \in 0..MaxTokens }

InitLink ==
    /\ tokens_in \in Phrases
    /\ \E sep \in Separators : link = Join(tokens_in, sep)
    /\ lpc = "call"
    /\ species_list = <<>>
    /\ titles = <<>>
    /\ abstracts = <<>>
    /\ genus_to_species = <<>>
    /\ pc = "idle"
    /\ t = 0
    /\ a = 0
    /\ s = 1
    /\ j = 0
    /\ err = "none"
    /\ last = NoPass
    /\ suppressed = FALSE
    /\ PluginIdle
    /\ BlankIdle
    /\ DriverIdle

\* link = get_species_link(link)
GetSpeciesLink ==
    /\ lpc = "call"
    /\ link' = get_species_link(link)
    /\ lpc' = "return"
    /\ UNCHANGED <<tokens_in, pluginvars, blankvars, insertvars, drivervars>>

NextLink == GetSpeciesLink

SpecLink == InitLink /\ [][NextLink]_vars

(***************************************************************************)
(* SpeciesLinkCommand.run on one selected region                           *)
(***************************************************************************)

\* the most runs of the command on a selection
MaxRuns == 2

\* insert_species_links is not running
InsertIdle ==
    /\ species_list = <<>>
    /\ titles = <<>>
    /\ abstracts = <<>>
    /\ genus_to_species = <<>>
    /\ pc = "idle"
    /\ t = 0
    /\ a = 0
    /\ s = 1
    /\ j = 0
    /\ err = "none"
    /\ last = NoPass
    /\ suppressed = FALSE

\* the user has selected a phrase
InitPlugin ==
    /\ tokens_in \in Phrases
    /\ \E sep \in Separators : region = Join(tokens_in, sep)
    /\ edits = <<>>
    /\ link = <<>>
    /\ lpc = "idle"
    /\ InsertIdle
    /\ BlankIdle
    /\ DriverIdle

\* if is_species_link(view.substr(region)):
\*     view.replace(edit, region, remove_species_link(view.substr(region)))
RunRemove ==
    /\ Len(edits) < MaxRuns
    /\ region # <<>>
    /\ is_species_link(region)
    /\ region' = remove_species_link(region)
    /\ edits' = Append(edits, region)
    /\ UNCHANGED <<linkvars, blankvars, insertvars, drivervars>>

\* else: view.replace(edit, region, get_species_link(view.substr(region)))
RunInsert ==
    /\ Len(edits) < MaxRuns
    /\ region # <<>>
    /\ ~is_species_link(region)
    /\ region' = get_species_link(region)
    /\ edits' = Append(edits, region)
    /\ UNCHANGED <<linkvars, blankvars, insertvars, drivervars>>

NextPlugin ==
    \/ RunRemove
    \/ RunInsert

SpecPlugin == InitPlugin /\ [][NextPlugin]_vars

(***************************************************************************)
(* remove_blank_chars, statement by statement                              *)
(***************************************************************************)

\* the longest argument
MaxLen == 5

\* the characters of an argument: a letter, a space, a newline
BlankAlphabet == {"a", " ", "\n"}

\* no call of get_species_link
LinkIdle == tokens_in = <<>> /\ link = <<>> /\ lpc = "idle"

\* text.replace('\n', '') instead of text.replace('\n', ' ')
NewlinesToSpaces_Dropped(text) == ReplaceAll(text, <<"\n">>, <<>>)

\* text.replace('\n', ' ')
NewlinesToSpaces(text) == ReplaceChar(text, "\n", " ")

\* '  ' in text
HasDoubleSpace(text) == Contains(text, <<" ", " ">>)

InitBlank ==
    /\ blank_in \in UNION { [1..n -> BlankAlphabet] : n \in 0..MaxLen }
    /\ blank_text = blank_in
    /\ bpc = "call"
    /\ InsertIdle
    /\ LinkIdle
    /\ PluginIdle
    /\ DriverIdle

\* text = text.replace('\n', ' ')
BlankNewlines ==
    /\ bpc = "call"
    /\ blank_text' = NewlinesToSpaces(blank_text)
    /\ bpc' = "loop"
    /\ UNCHANGED <<blank_in, linkvars, pluginvars, insertvars, drivervars>>

\* while '  ' in text: text = text.replace('  ', ' ')
BlankPass ==
    /\ bpc = "loop"
    /\ HasDoubleSpace(blank_text)
    /\ blank_text' = ReplaceAll(blank_text, <<" ", " ">>, <<" ">>)
    /\ UNCHANGED <<blank_in, bpc, linkvars, pluginvars, insertvars, drivervars>>

\* return text
BlankReturn ==
    /\ bpc = "loop"
    /\ ~HasDoubleSpace(blank_text)
    /\ bpc' = "return"
    /\ UNCHANGED <<blank_in, blank_text, linkvars, pluginvars, insertvars, drivervars>>

NextBlank ==
    \/ BlankNewlines
    \/ BlankPass
    \/ BlankReturn

\* a call that has begun goes on to its next statement
SpecBlank == InitBlank /\ [][NextBlank]_vars /\ WF_vars(NextBlank)

(***************************************************************************)
(* process.py: the loop over the XML files of a folder                     *)
(*                                                                         *)
(* The configurations taken are those with TEXTSUBS, BOLD and ITALIC off   *)
(* and both newline counts 0, so that the title and abstract branches call *)
(* neither common_text_subs nor surround_headers; the documents hold no    *)
(* <authors> element.  A file is the sequence of its elements in document  *)
(* order, the <article> first; on disk the texts are escaped.              *)
(***************************************************************************)

\* the most files of a folder
MaxFiles == 2
\* the most runs of process.py over the folder
MaxDriverRuns == 2

\* journal_code, inferred from the folder name
JournalCode == <<"a", "b">>
\* journal_code + 'xxx'
Placeholder == JournalCode \o <<"x", "x", "x">>
\* year, inferred from the file names
Year == <<"2", "0", "2", "0">>
\* 'default'
DefaultWord == <<"d", "e", "f", "a", "u", "l", "t">>
\* 'Copyright '
CopyrightWord == <<"C", "o", "p", "y", "r", "i", "g", "h", "t", " ">>
\* the text of an element that has none: None, and str(None)
NoneText == <<"None">>
NoneWord == <<"N", "o", "n", "e">>

\* the file names of the folder without their .xml: ab20001, ab20002, ...
FileName(n) == JournalCode \o <<"2", "0", "0", "0">> \o <<<<"1", "2", "3", "4">>[n]>>

\* ElementTree writes & < > of a text as entities, and reads them back
Escape(text) ==
    ReplaceAll(ReplaceAll(ReplaceAll(text, <<"&">>, <<"&", "a", "m", "p", ";">>), <<"<">>, <<"&", "l", "t", ";">>), <<">">>, <<"&", "g", "t", ";">>)

Unescape(text) ==
    ReplaceAll(ReplaceAll(ReplaceAll(text, <<"&", "l", "t", ";">>, <<"<">>), <<"&", "g", "t", ";">>, <<">">>), <<"&", "a", "m", "p", ";">>, <<"&">>)

\* the two arguments of the str.replace of line 469
RawPattern == <<"&", "l", "t", ";", "(", "/", ")", "?", "(", "i", "|", "b", "|", "s", "u", "p", "|", "s", "u", "b", "|", "b", "r", "/", ")", "&", "g", "t", ";">>
RawRepl == <<"<", "\\", "g", "<", "1", ">", "\\", "g", "<", "2", ">", ">">>

\* the text of an element as ET.tostring and line 469 write it; an element
\* whose text is '' or None is written without text
ToDisk(text) ==
    ReplaceAll(IF text = NoneText THEN <<>> ELSE Escape(text), RawPattern, RawRepl)

\* the text of an element as ET.fromstring reads it
FromDisk(text) == IF text = <<>> THEN NoneText ELSE Unescape(text)

Element(tag, text) == [tag |-> tag, text |-> text, id |-> <<>>, pages |-> <<>>]

Article(id, pages) == [tag |-> "article", text |-> <<>>, id |-> id, pages |-> pages]

\* documents as they arrive: a document with an abstract and an NA author, a
\* document whose title is NA, a document with a species in its title
DocPool ==
    << << Article(Placeholder, <<"5", "-", "5">>),
          Element("title", <<"A", "b", " ", "c", ",", " ", "a", "b">>),
          Element("copyright", <<"S">>),
          Element("keyword", <<"k", ",", " ", "l", ",", ";", " ", "m">>),
          Element("index", Placeholder),
          Element("abstract", <<"x">>),
          Element("author", <<"N", "A">>) >>,
       << Article(Placeholder, <<"5", "-", "7">>),
          Element("title", <<"n", "/", "a">>),
          Element("copyright", <<"S">>),
          Element("keyword", <<"k">>),
          Element("index", Placeholder),
          Element("author", <<"Y", "u">>) >>,
       << Article(Placeholder, <<"5", "-", "7">>),
          Element("title", <<"A", "b", " ", "c">>),
          Element("copyright", <<"S">>),
          Element("keyword", <<"k", ",", "l">>),
          Element("index", Placeholder \o <<" ", "1", "2">>),
          Element("author", <<"Y", "u">>) >> >>

\* the contents of common_species.txt: a line without a space, a species
DriverSpeciesLists == { << <<"A", "b">> >>, << <<"A", " ", "b">> >> }

Configs ==
    [copyright : {DefaultWord, <<"T">>},
     split_keywords : BOOLEAN,
     species_links : BOOLEAN,
     species : DriverSpeciesLists]

\* not elem.attrib['id'] == journal_code + 'xxx'
already_processed(elem) == ~(elem.id = Placeholder)

Digits == {"0", "1", "2", "3", "4", "5", "6", "7", "8", "9"}

\* re.match(r'(\d+)-\1$', pages): digits, a hyphen, the same digits
RedundantPages(pages) ==
    LET parts == SplitOn(pages, "-")
    IN  /\ Len(parts) = 2
        /\ Len(parts[1]) > 0
        /\ parts[1] = parts[2]
        /\ \A i \in 1..Len(parts[1]) : parts[1][i] \in Digits

\* elem.attrib['pages'], after fix_redundant_page_numbers(elem)
fix_redundant_page_numbers(pages) ==
    IF RedundantPages(pages) THEN SplitOn(pages, "-")[1] ELSE pages

\* the beginnings r'^(N ?A ?|N ?/A ?|N ?\.A\.? ?)' matches, letter case ignored
NABeginnings ==
    { <<"N", "A">>, <<"N", " ", "A">>, <<"N", "/", "A">>, <<"N", " ", "/", "A">>,
      <<"N", ".", "A">>, <<"N", " ", ".", "A">> }

IsNA(text) == \E b \in NABeginnings : StartsWithAt(text, 0, b, TRUE)

\* f'Copyright {year} - {elem.text}' or f'Copyright {year} - {copyright}'
CopyrightText(text) ==
    CopyrightWord \o Year \o <<" ", "-", " ">>
        \o (IF LowerStr(config.copyright) = DefaultWord
            THEN IF text = NoneText THEN NoneWord ELSE text
            ELSE config.copyright)

\* elem.text.replace(',;', ';'), then .replace(',', ';') if split_keywords
KeywordText(text) ==
    LET x == ReplaceAll(text, <<",", ";">>, <<";">>)
    IN  IF config.split_keywords THEN ReplaceAll(x, <<",">>, <<";">>) ELSE x

\* the texts of the elements with this tag, in document order
TextsOf(elems, tag) ==
    LET K == { k \in 1..Len(elems) : elems[k].tag = tag }
    IN  [n \in 1..Cardinality(K) |->
           elems[CHOOSE k \in K : Cardinality({ m \in K : m <= k }) = n].text]

\* the number of elements with the tag of elems[k] up to position k
Rank(elems, k) == Cardinality({ m \in 1..k : elems[m].tag = elems[k].tag })

\* the values the variables of insert_species_links have outside a call
InsertReset ==
    /\ species_list' = <<>>
    /\ titles' = <<>>
    /\ abstracts' = <<>>
    /\ genus_to_species' = <<>>
    /\ pc' = "idle"
    /\ t' = 0
    /\ a' = 0
    /\ s' = 1
    /\ j' = 0
    /\ err' = "none"
    /\ last' = NoPass
    /\ suppressed' = FALSE

InitDriver ==
    /\ \E n \in 1..MaxFiles :
         \E docs \in [1..n -> 1..Len(DocPool)] :
           folder = [k \in 1..n |-> [name |-> FileName(k), elems |-> DocPool[docs[k]]]]
    /\ config \in Configs
    /\ root = <<>>
    /\ fi = 0
    /\ ei = 0
    /\ dpc = "next"
    /\ derr = "none"
    /\ file_to_volume = {}
    /\ druns = 1
    /\ disk_before = folder
    /\ InsertIdle
    /\ LinkIdle
    /\ PluginIdle
    /\ BlankIdle

\* for filename in os.listdir(filepath): root = ET.fromstring(f.read())
DriverOpen ==
    /\ dpc = "next"
    /\ fi < Len(folder)
    /\ fi' = fi + 1
    /\ root' = [k \in 1..Len(folder[fi + 1].elems) |->
                  [folder[fi + 1].elems[k] EXCEPT !.text = FromDisk(@)]]
    /\ ei' = 1
    /\ dpc' = "elems"
    /\ UNCHANGED <<folder, config, derr, file_to_volume, druns, disk_before,
                   insertvars, linkvars, pluginvars, blankvars>>

\* if already_processed(elem): continue  -- the next element of root.iter()
DriverArticleSkip ==
    /\ dpc = "elems"
    /\ ei <= Len(root)
    /\ root[ei].tag = "article"
    /\ already_processed(root[ei])
    /\ ei' = ei + 1
    /\ UNCHANGED <<folder, config, root, fi, dpc, derr, file_to_volume, druns,
                   disk_before, insertvars, linkvars, pluginvars, blankvars>>

\* the article branch of a file not yet processed
DriverArticle ==
    /\ dpc = "elems"
    /\ ei <= Len(root)
    /\ root[ei].tag = "article"
    /\ ~already_processed(root[ei])
    /\ root' = [root EXCEPT ![ei].id = folder[fi].name,
                            ![ei].pages = fix_redundant_page_numbers(@)]
    /\ file_to_volume' = file_to_volume \cup {folder[fi].name}
    /\ ei' = ei + 1
    /\ UNCHANGED <<folder, config, fi, dpc, derr, druns, disk_before,
                   insertvars, linkvars, pluginvars, blankvars>>

\* the title and the author branch: re.match raises TypeError on None
DriverTitleOrAuthor ==
    /\ dpc = "elems"
    /\ ei <= Len(root)
    /\ root[ei].tag \in {"title", "author"}
    /\ IF root[ei].text = NoneText
       THEN /\ dpc' = "crashed"
            /\ derr' = "TypeError"
            /\ UNCHANGED <<root, ei>>
       ELSE /\ root' = [root EXCEPT ![ei].text = IF IsNA(@) THEN <<>> ELSE @]
            /\ ei' = ei + 1
            /\ UNCHANGED <<dpc, derr>>
    /\ UNCHANGED <<folder, config, fi, file_to_volume, druns, disk_before,
                   insertvars, linkvars, pluginvars, blankvars>>

\* the copyright branch
DriverCopyright ==
    /\ dpc = "elems"
    /\ ei <= Len(root)
    /\ root[ei].tag = "copyright"
    /\ root' = [root EXCEPT ![ei].text = CopyrightText(@)]
    /\ ei' = ei + 1
    /\ UNCHANGED <<folder, config, fi, dpc, derr, file_to_volume, druns, disk_before,
                   insertvars, linkvars, pluginvars, blankvars>>

\* the keyword branch
DriverKeyword ==
    /\ dpc = "elems"
    /\ ei <= Len(root)
    /\ root[ei].tag = "keyword"
    /\ root' = [root EXCEPT ![ei].text = KeywordText(@)]
    /\ ei' = ei + 1
    /\ UNCHANGED <<folder, config, fi, dpc, derr, file_to_volume, druns, disk_before,
                   insertvars, linkvars, pluginvars, blankvars>>

\* elem.text = elem.text.replace(f'{journal_code}xxx', filename[:-4])
DriverIndex ==
    /\ dpc = "elems"
    /\ ei <= Len(root)
    /\ root[ei].tag = "index"
    /\ root' = [root EXCEPT ![ei].text = ReplaceAll(@, Placeholder, folder[fi].name)]
    /\ ei' = ei + 1
    /\ UNCHANGED <<folder, config, fi, dpc, derr, file_to_volume, druns, disk_before,
                   insertvars, linkvars, pluginvars, blankvars>>

\* the abstract branch under these configurations: no condition holds
DriverAbstract ==
    /\ dpc = "elems"
    /\ ei <= Len(root)
    /\ root[ei].tag = "abstract"
    /\ ei' = ei + 1
    /\ UNCHANGED <<folder, config, root, fi, dpc, derr, file_to_volume, druns,
                   disk_before, insertvars, linkvars, pluginvars, blankvars>>

\* root.iter() is exhausted
DriverElemsDone ==
    /\ dpc = "elems"
    /\ ei > Len(root)
    /\ dpc' = "links"
    /\ UNCHANGED <<folder, config, root, fi, ei, derr, file_to_volume, druns,
                   disk_before, insertvars, linkvars, pluginvars, blankvars>>

\* if species_links: insert_species_links(root) -- the call begins
DriverInsertLinks ==
    /\ dpc = "links"
    /\ config.species_links
    /\ species_list' = config.species
    /\ titles' = TextsOf(root, "title")
    /\ abstracts' = TextsOf(root, "abstract")
    /\ genus_to_species' = <<>>
    /\ pc' = "titles"
    /\ t' = 0
    /\ a' = 0
    /\ s' = 1
    /\ j' = 0
    /\ err' = "none"
    /\ last' = NoPass
    /\ suppressed' = FALSE
    /\ dpc' = "linking"
    /\ UNCHANGED <<folder, config, root, fi, ei, derr, file_to_volume, druns,
                   disk_before, linkvars, pluginvars, blankvars>>

\* insert_species_links has returned: the texts of root are those it left
DriverLinksDone ==
    /\ dpc = "linking"
    /\ pc = "done"
    /\ root' = [k \in 1..Len(root) |->
                  IF root[k].tag = "title"
                  THEN [root[k] EXCEPT !.text = titles[Rank(root, k)]]
                  ELSE IF root[k].tag = "abstract"
                       THEN [root[k] EXCEPT !.text = abstracts[Rank(root, k)]]
                       ELSE root[k]]
    /\ InsertReset
    /\ dpc' = "write"
    /\ UNCHANGED <<folder, config, fi, ei, derr, file_to_volume, druns, disk_before,
                   linkvars, pluginvars, blankvars>>

\* insert_species_links has raised: process.py ends with the traceback and
\* the file is not written
DriverLinksRaised ==
    /\ dpc = "linking"
    /\ pc = "raised"
    /\ derr' = err
    /\ dpc' = "crashed"
    /\ UNCHANGED <<folder, config, root, fi, ei, file_to_volume, druns, disk_before,
                   insertvars, linkvars, pluginvars, blankvars>>

\* species_links is off
DriverSkipLinks ==
    /\ dpc = "links"
    /\ ~config.species_links
    /\ dpc' = "write"
    /\ UNCHANGED <<folder, config, root, fi, ei, derr, file_to_volume, druns,
                   disk_before, insertvars, linkvars, pluginvars, blankvars>>

\* f.write(text)
DriverWrite ==
    /\ dpc = "write"
    /\ folder' = [folder EXCEPT ![fi].elems =
                    [k \in 1..Len(root) |-> [root[k] EXCEPT !.text = ToDisk(@)]]]
    /\ root' = <<>>
    /\ ei' = 0
    /\ dpc' = "next"
    /\ UNCHANGED <<config, fi, derr, file_to_volume, druns, disk_before,
                   insertvars, linkvars, pluginvars, blankvars>>

\* print('Completed XML processing!')
DriverCompleted ==
    /\ dpc = "next"
    /\ fi = Len(folder)
    /\ dpc' = "completed"
    /\ UNCHANGED <<folder, config, root, fi, ei, derr, file_to_volume, druns,
                   disk_before, insertvars, linkvars, pluginvars, blankvars>>

\* process.py is started again on the same folder
DriverRerun ==
    /\ dpc \in {"completed", "crashed"}
    /\ druns < MaxDriverRuns
    /\ druns' = druns + 1
    /\ disk_before' = folder
    /\ root' = <<>>
    /\ fi' = 0
    /\ ei' = 0
    /\ dpc' = "next"
    /\ derr' = "none"
    /\ file_to_volume' = {}
    /\ InsertReset
    /\ UNCHANGED <<folder, config, linkvars, pluginvars, blankvars>>

NextDriver ==
    \/ DriverOpen
    \/ DriverArticleSkip
    \/ DriverArticle
    \/ DriverTitleOrAuthor
    \/ DriverCopyright
    \/ DriverKeyword
    \/ DriverIndex
    \/ DriverAbstract
    \/ DriverElemsDone
    \/ DriverInsertLinks
    \/ DriverLinksDone
    \/ DriverLinksRaised
    \/ DriverSkipLinks
    \/ DriverWrite
    \/ DriverCompleted
    \/ DriverRerun
    \/ Next

SpecDriver == InitDriver /\ [][NextDriver]_vars

(***************************************************************************)
(* Properties                                                              *)
(***************************************************************************)

\* the text of the block the last pass was made on, as the pass left it
CurText == IF last.ctx = "title" THEN titles[t] ELSE abstracts[a]

\* the normalised text of a span of the text before the pass
Matched(span) == remove_blank_chars(Slice(last.before, span[1], span[2]))

\* the first position at or after from where lit occurs in text, or -1
FirstAt(text, from, lit) ==
    LET found == { p \in from..(Len(text) - Len(lit)) : StartsWithAt(text, p, lit, FALSE) }
    IN  IF found = {} THEN -1 ELSE CHOOSE x \in found : \A y \in found : x <= y

\* the text with every span from the k-th on replaced by its entry of repl,
\* starting at position from of the text: the spans replaced all at once
RECURSIVE Substitute(_, _, _, _, _)
Substitute(text, spans, repl, k, from) ==
    IF k > Len(spans) THEN Slice(text, from, Len(text))
    ELSE Slice(text, from, spans[k][1]) \o repl[k]
             \o Substitute(text, spans, repl, k + 1, spans[k][2])

\* every span as plain emphasis of its normalised text
AllEmphasis == [k \in 1..Len(last.spans) |-> IOpen \o Matched(last.spans[k]) \o IClose]

\* x is one structured link: an opening taxon tag, through to a closing one
IsTaxonLink(x) ==
    /\ StartsWithAt(x, 0, TaxonGenus, FALSE)
    /\ Len(x) >= Len(TaxonClose)
    /\ StartsWithAt(x, Len(x) - Len(TaxonClose), TaxonClose, FALSE)
    /\ FirstAt(x, 0, TaxonClose) = Len(x) - Len(TaxonClose)

\* the opening taxon tags in x
LinkStarts(x) == { p \in 0..Len(x) : StartsWithAt(x, p, TaxonGenus, FALSE) }

\* the regions of x that are structured links, as spans
LinkRegions(x) ==
    { <<p, FirstAt(x, p, TaxonClose) + Len(TaxonClose)>> :
        p \in { q \in LinkStarts(x) : FirstAt(x, q, TaxonClose) # -1 } }

\* the first match became a link, every other match plain emphasis without
\* name-tokens, and nothing else changed
FirstLinkedRestEmphasis ==
    LET head == Slice(last.before, 0, last.spans[1][1])
        tail == Substitute(last.before, last.spans, AllEmphasis, 2, last.spans[1][2])
        cur  == CurText
    IN  /\ Len(cur) >= Len(head) + Len(tail)
        /\ Slice(cur, 0, Len(head)) = head
        /\ Slice(cur, Len(cur) - Len(tail), Len(cur)) = tail
        /\ IsTaxonLink(Slice(cur, Len(head), Len(cur) - Len(tail)))
        /\ \A k \in 2..Len(last.spans) : ~Contains(AllEmphasis[k], SpOpen)

\* every line of the species list that has a space has a genus and an epithet
WellFormedList ==
    \A n \in 1..Len(species_list) :
      HasSpace(species_list[n])
      => Len(Parts(species_list[n])[1]) > 0 /\ Len(Parts(species_list[n])[2]) > 0

\* a full-name pass of a species that is no pseudospecies found 2 matches or more
RepeatMention ==
    /\ last.kind = "full"
    /\ ~last.pseudospecies
    /\ Len(last.spans) >= 2

\* C1 as stated: in a title or an abstract, after the full-name pass of a
\* species that is no pseudospecies and occurs twice or more, the leftmost
\* occurrence is a structured link and every other one plain emphasis (stated
\* for species lists whose entries all have a genus and an epithet).
C1_RepeatMentionAnyBlock ==
    (WellFormedList /\ RepeatMention) => FirstLinkedRestEmphasis

\* C1, amended: the same, in a title, and in an abstract when the normalised
\* leftmost match is not a key of the genus index.
C1_RepeatMention ==
    ( /\ RepeatMention
      /\ \/ last.ctx = "title"
         \/ ~HasKey(genus_to_species[j + 1], Matched(last.spans[1])) )
    => FirstLinkedRestEmphasis

C1_Witness ==
    /\ RepeatMention
    /\ last.ctx = "abstract"
    /\ ~HasKey(genus_to_species[j + 1], Matched(last.spans[1]))
    /\ \E k \in 1..Len(last.spans) :
         Slice(last.before, last.spans[k][1], last.spans[k][2]) # Matched(last.spans[k])

\* C2: the full-name pass of a pseudospecies entry turns every match, the
\* leftmost included, into plain emphasis and adds no structured link.
C2_PseudospeciesNeverLinks ==
    (last.kind = "full" /\ last.pseudospecies /\ Len(last.spans) >= 1)
    => /\ CurText = Substitute(last.before, last.spans, AllEmphasis, 1, 0)
       /\ Cardinality(LinkStarts(CurText)) = Cardinality(LinkStarts(last.before))

C2_Witness ==
    /\ last.kind = "full"
    /\ last.pseudospecies
    /\ Len(last.spans) >= 2
    /\ last.ctx = "title"

\* C3: the short-form pass turns every match, the first included and wherever
\* it stands relative to the full form, into plain emphasis and adds no
\* structured link.
C3_ShortFormNeverLinks ==
    (last.kind = "short" /\ Len(last.spans) >= 1)
    => /\ CurText = Substitute(last.before, last.spans, AllEmphasis, 1, 0)
       /\ Cardinality(LinkStarts(CurText)) = Cardinality(LinkStarts(last.before))

\* a short form that stands before the link of the full form
C3_Witness ==
    /\ last.kind = "short"
    /\ Len(last.spans) >= 1
    /\ last.own > last.spans[1][1]

\* the length of the markup that starts at pos of cur: an emphasis through to
\* its closing tag, or a link through to its closing tag; -1 if neither
MarkupLen(cur, pos) ==
    IF StartsWithAt(cur, pos, IOpen, FALSE) /\ FirstAt(cur, pos, IClose) # -1
    THEN FirstAt(cur, pos, IClose) + Len(IClose) - pos
    ELSE IF StartsWithAt(cur, pos, TaxonGenus, FALSE) /\ FirstAt(cur, pos, TaxonClose) # -1
    THEN FirstAt(cur, pos, TaxonClose) + Len(TaxonClose) - pos
    ELSE -1

\* from span k on, the text between the spans stands in cur, in order, with
\* one piece of markup where each span was
RECURSIVE FrameKept(_, _, _, _, _, _)
FrameKept(before, cur, spans, k, bpos, cpos) ==
    IF k > Len(spans)
    THEN Slice(before, bpos, Len(before)) = Slice(cur, cpos, Len(cur))
    ELSE LET gap == spans[k][1] - bpos
         IN  /\ cpos + gap <= Len(cur)
             /\ Slice(before, bpos, spans[k][1]) = Slice(cur, cpos, cpos + gap)
             /\ MarkupLen(cur, cpos + gap) >= 0
             /\ FrameKept(before, cur, spans, k + 1, spans[k][2],
                          cpos + gap + MarkupLen(cur, cpos + gap))

\* the genus italicization of text for one key keeps the text between its
\* spans, and the two boundary characters of each span
GenusFrameKept(text, genus) ==
    LET matches == GenusMatches(text, genus)
        out == GenusItalicize(text, matches, 1)
        n == Len(matches)
        shift == Len(IOpen) + Len(IClose)
    IN  /\ Len(out) = Len(text) + n * shift
        /\ \A k \in 0..n :
             LET from == IF k = 0 THEN 0 ELSE matches[k][2]
                 to == IF k = n THEN Len(text) ELSE matches[k + 1][1]
             IN  Slice(out, from + k * shift, to + k * shift) = Slice(text, from, to)
        /\ \A k \in 1..n :
             /\ out[matches[k][1] + (k - 1) * shift + 1] = text[matches[k][1] + 1]
             /\ out[matches[k][2] + k * shift] = text[matches[k][2]]

\* C4: a pass that replaces its spans in descending order leaves the
\* characters outside the spans unchanged and in order: the full-name and
\* short-form passes as made, the genus italicization as lines 204-209 compute
\* it for any abstract text and key of the genus index.
C4_OffsetSafety ==
    /\ last.kind \in {"full", "short"}
       => FrameKept(last.before, CurText, last.spans, 1, 0, 0)
    /\ \A n \in 1..Len(abstracts) : \A d \in 1..Len(genus_to_species) :
         \A i \in 1..Len(genus_to_species[d]) :
           GenusFrameKept(abstracts[n], genus_to_species[d][i].key)

C4_Witness ==
    /\ last.kind \in {"full", "short"}
    /\ Len(last.spans) >= 2
    /\ last.spans[1][1] > 0
    /\ last.spans[Len(last.spans)][2] < Len(last.before)
    /\ \E n \in 1..Len(abstracts) : \E i \in 1..Len(genus_to_species[1]) :
         Len(GenusMatches(abstracts[n], genus_to_species[1][i].key)) >= 1

\* C5 as stated: no match of a full-name or short-form scan overlaps a region
\* that an earlier species entry has wrapped in a structured link (stated for
\* species lists whose entries all have a genus and an epithet).
C5_NoRewrapOfLinks ==
    (WellFormedList /\ last.kind \in {"full", "short"})
    => \A k \in 1..Len(last.spans) : \A r \in LinkRegions(last.before) :
         r[1] # last.own
         => (last.spans[k][2] <= r[1] \/ r[2] <= last.spans[k][1])

\* C6 as stated: whatever the numbers of title and abstract nodes,
\* insert_species_links does not raise (stated for species lists whose entries
\* all have a genus and an epithet).
C6_AnyCountsComplete == WellFormedList => pc # "raised"

\* the structured links in text of a species of the genus, by its epithets
SpeciesLinkStarts(text, genus, eps) ==
    { p \in 0..Len(text) : \E n \in 1..Len(eps) :
        StartsWithAt(text, p, TaxonGenus \o genus \o AttrSpecies \o eps[n] \o <<"\"">>, TRUE) }

\* the occurrences of the genus in text[:m] that are part of no link
BareGenusBefore(text, genus, m) ==
    { p \in 0..(m - 1) :
        /\ StartsWithAt(text, p, genus, TRUE)
        /\ p + Len(genus) < m
        /\ \A r \in LinkRegions(text) : p + Len(genus) <= r[1] \/ r[2] <= p }

\* the genus-only structured link of a name
GenusOnlyLink(name) ==
    TaxonGenus \o name \o AttrSpecies \o AttrSubPrefix \o AttrSubSpecies \o AttrClose
        \o SpOpen \o name \o SpClose \o TaxonClose

\* C7 as stated: once the genus pass of an abstract is over, for every genus
\* of the index with a link of one of its species in the text and a bare
\* occurrence of the genus before the first such link, a bare occurrence has
\* become a genus-only link.
C7_GenusBackReference ==
    (WellFormedList /\ last.kind = "genus")
    => \A i \in 1..Len(genus_to_species[j + 1]) :
         LET genus == genus_to_species[j + 1][i].key
             links == SpeciesLinkStarts(last.before, genus, genus_to_species[j + 1][i].eps)
             first == CHOOSE x \in links : \A y \in links : x <= y
         IN  (links # {} /\ BareGenusBefore(last.before, genus, first) # {})
             => \E p \in BareGenusBefore(last.before, genus, first) :
                  Contains(CurText,
                           GenusOnlyLink(Slice(last.before, p, p + Len(genus))))

\* the occurrences of the genus in text with a boundary character on each side
BoundedGenus(text, genus) ==
    { p \in 1..(Len(text) - Len(genus) - 1) :
        /\ StartsWithAt(text, p, genus, TRUE)
        /\ text[p] \in GenusBoundary
        /\ text[p + Len(genus) + 1] \in GenusBoundary }

\* C8 as stated: once the genus pass of an abstract is over, no occurrence of
\* a genus of the index stands bare between two boundary characters.
C8_GenusItalicized ==
    (WellFormedList /\ last.kind = "genus")
    => \A i \in 1..Len(genus_to_species[j + 1]) :
         BoundedGenus(CurText,
                      ReplaceAll(genus_to_species[j + 1][i].key, <<"*">>, <<>>)) = {}

\* s2 is s1 with one character before and one after, up to letter case
EnclosedWrap(s1, s2) ==
    /\ Len(s2) = Len(s1) + 2
    /\ \A i \in 1..Len(s1) : Lower(s1[i]) = Lower(s2[i + 1])

\* get_species_link has returned for three words, the second an enclosed wrap
\* of the first
EnclosedPhrase ==
    /\ lpc = "return"
    /\ Len(tokens_in) = 3
    /\ tokens_in[2] \notin {RankSp, RankSpp}
    /\ EnclosedWrap(tokens_in[1], tokens_in[2])

\* C9 as stated: the species attribute is token1 and token2 stands unwrapped
\* between the name-tokens of token1 and token3.
C9_EnclosedUnwrapped ==
    EnclosedPhrase
    => link = TaxonGenus \o tokens_in[1] \o AttrSpecies \o tokens_in[1] \o AttrSubPrefix
                \o AttrSubSpecies \o tokens_in[3] \o AttrClose
                \o SpOpen \o tokens_in[1] \o SpClose \o <<" ">> \o tokens_in[2]
                \o <<" ">> \o SpOpen \o tokens_in[3] \o SpClose \o TaxonClose

\* C9, amended: the species attribute is token2 without its first and last
\* character, and token2 stands wrapped as a name-token between the
\* name-tokens of token1 and token3; the sub-species attribute is token3.
C9_EnclosedWrapped ==
    EnclosedPhrase
    => link = TaxonGenus \o tokens_in[1] \o AttrSpecies
                \o SubSeq(tokens_in[2], 2, Len(tokens_in[2]) - 1) \o AttrSubPrefix
                \o AttrSubSpecies \o tokens_in[3] \o AttrClose
                \o SpOpen \o tokens_in[1] \o SpClose \o <<" ">>
                \o SpOpen \o tokens_in[2] \o SpClose \o <<" ">>
                \o SpOpen \o tokens_in[3] \o SpClose \o TaxonClose

C9_Witness ==
    /\ EnclosedPhrase
    /\ SubSeq(tokens_in[2], 2, Len(tokens_in[2]) - 1) # tokens_in[1]

\* C10: for a genus followed by sp. or spp., get_species_link returns the
\* genus-only link, the very string it returns for the genus alone.
C10_RankMarkerCollapse ==
    (lpc = "return" /\ Len(tokens_in) = 2 /\ tokens_in[2] \in {RankSp, RankSpp})
    => /\ link = GenusOnlyLink(tokens_in[1])
       /\ link = get_species_link(tokens_in[1])

C10_Witness ==
    /\ lpc = "return"
    /\ Len(tokens_in) = 2
    /\ tokens_in[2] = RankSpp
    /\ link = GenusOnlyLink(tokens_in[1])

\* the words of tokens_in after the second and before the last, each followed
\* by one space
RECURSIVE Connector(_, _)
Connector(words, k) ==
    IF k >= Len(words) THEN <<>>
    ELSE words[k] \o <<" ">> \o Connector(words, k + 1)

\* C11: for a phrase of more than 4 words, get_species_link returns the link
\* whose genus is the first word, whose species is the second, whose
\* sub-species is the last and whose sub-prefix is empty; between the
\* name-tokens of the second and the last word stand the words in between,
\* unwrapped, in their order, one space apart.
C11_MergeConnector ==
    (lpc = "return" /\ Len(tokens_in) > 4)
    => LET n == Len(tokens_in)
       IN  link = TaxonGenus \o tokens_in[1] \o AttrSpecies \o tokens_in[2]
                    \o AttrSubPrefix \o AttrSubSpecies \o tokens_in[n] \o AttrClose
                    \o SpOpen \o tokens_in[1] \o SpClose \o <<" ">>
                    \o SpOpen \o tokens_in[2] \o SpClose \o <<" ">>
                    \o Connector(tokens_in, 3)
                    \o SpOpen \o tokens_in[n] \o SpClose \o TaxonClose

C11_Witness ==
    /\ lpc = "return"
    /\ Len(tokens_in) > 4
    /\ tokens_in[3] # tokens_in[4]
    /\ Contains(link, <<"\n">>) = FALSE
    /\ Contains(link, SpClose \o <<" ">> \o tokens_in[3] \o <<" ">> \o tokens_in[4]
                        \o <<" ">> \o SpOpen)

\* the command has run twice on a phrase: the first run wrote a link, the
\* second removed it
Unlinked ==
    /\ Len(edits) = 2
    /\ edits[1] = Join(tokens_in, <<" ">>) \/ edits[1] = Join(tokens_in, <<"\n", " ">>)
    /\ edits[2] = get_species_link(edits[1])
    /\ is_species_link(edits[2])

\* the words a link of tokens_in shows between its tags
ShownWords ==
    IF Len(tokens_in) = 2 /\ tokens_in[2] \in {RankSp, RankSpp}
    THEN <<tokens_in[1]>>
    ELSE tokens_in

\* C12: remove_species_link applied to the link that get_species_link made of
\* a phrase leaves the words the link shows, one space apart and in their
\* order, with no <sp> tag, no </taxon> and no <taxon ...> opening tag.
C12_RemoveInvertsLink ==
    Unlinked
    => /\ region = Join(ShownWords, <<" ">>)
       /\ ~Contains(region, SubSeq(TaxonGenus, 1, 6))

\* a line of common_species.txt with no epithet: at most one word, with or
\* without spaces around it
NoEpithet(species) == Len(SplitWs(species)) <= 1

\* the texts are those the document had when insert_species_links was called
TextsUntouched ==
    \E base \in 1..Len(TextPool) :
      /\ titles = [n \in 1..Len(titles) |-> PoolText(base + n - 1)]
      /\ abstracts = [n \in 1..Len(abstracts) |-> PoolText(base + n - 1)]

\* C13: when every line of the species list lacks an epithet (the document
\* has a title, so that genus_to_species has an element), no exception is
\* raised and no title or abstract text changes.
C13_NoEpithetLinesInert ==
    (Len(titles) >= 1 /\ \A i \in 1..Len(species_list) : NoEpithet(species_list[i]))
    => /\ err = "none"
       /\ TextsUntouched

\* text with every newline read as a space and every space that follows a
\* space left out
Squeezed(text) ==
    LET u == [i \in 1..Len(text) |-> IF text[i] = "\n" THEN " " ELSE text[i]]
        K == { i \in 1..Len(text) : ~(u[i] = " " /\ i > 1 /\ u[i - 1] = " ") }
    IN  [n \in 1..Cardinality(K) |->
           u[CHOOSE i \in K : Cardinality({ k \in K : k <= i }) = n]]

\* what remove_blank_chars returns has no newline and no two spaces in a
\* row, is its argument squeezed, and is returned unchanged by another call
BlankResult ==
    bpc = "return"
    => /\ \A i \in 1..Len(blank_text) : blank_text[i] # "\n"
       /\ \A i \in 1..(Len(blank_text) - 1) :
            ~(blank_text[i] = " " /\ blank_text[i + 1] = " ")
       /\ blank_text = Squeezed(blank_in)
       /\ blank_text = remove_blank_chars(blank_in)
       /\ remove_blank_chars(blank_text) = blank_text

\* C14: every call of remove_blank_chars returns, and what it returns has no
\* newline and no two consecutive spaces, is the argument with each newline
\* replaced by a space and each run of spaces by one space, and is a fixed
\* point of remove_blank_chars.
C14_BlankCharsNormalForm == []BlankResult /\ <>(bpc = "return")

\* a call that needed two rounds of the loop has returned
C14_Witness ==
    /\ bpc = "return"
    /\ Contains(blank_in, <<"\n">>)
    /\ Contains(NewlinesToSpaces(blank_in), <<" ", " ", " ", " ">>)
    /\ Len(blank_text) < Len(blank_in) - 2

\* no key twice and, under each key, no epithet twice
DuplicateFree(index) ==
    /\ \A m, n \in 1..Len(index) : index[m].key = index[n].key => m = n
    /\ \A m \in 1..Len(index) :
         \A x, y \in 1..Len(index[m].eps) :
           index[m].eps[x] = index[m].eps[y] => x = y

\* the index the line just registered went into
RegisteredIndex ==
    IF last.ctx = "title" THEN genus_to_species[Len(genus_to_species)]
    ELSE genus_to_species[j + 1]

\* the key a line is registered under: its genus, after an asterisk if the
\* line began with one
KeyOf(species) ==
    IF species[1] = "*"
    THEN <<"*">> \o SplitOn(Tail(species), " ")[1]
    ELSE SplitOn(species, " ")[1]

\* C15: every genus index is free of duplicate keys and duplicate epithets;
\* registering the line just registered once more gives the same index; and
\* the line stands under its genus, or under its genus after an asterisk if
\* it is a pseudospecies, the two being different keys.
C15_RegistrationIdempotent ==
    /\ \A n \in 1..Len(genus_to_species) : DuplicateFree(genus_to_species[n])
    /\ last.kind = "full"
       => /\ Register(RegisteredIndex, last.pseudospecies, Parts(species_list[s]))
               = RegisteredIndex
          /\ \E m \in 1..Len(RegisteredIndex) :
               /\ RegisteredIndex[m].key = KeyOf(species_list[s])
               /\ (RegisteredIndex[m].key[1] = "*") = last.pseudospecies
               /\ \E x \in 1..Len(RegisteredIndex[m].eps) :
                    RegisteredIndex[m].eps[x] = Parts(species_list[s])[2]

\* a species and the pseudospecies of the same name have been registered by
\* the title and again by the abstract: two keys, one epithet each
C15_Witness ==
    /\ last.kind = "full"
    /\ last.ctx = "abstract"
    /\ s = 2
    /\ IsPseudospecies(species_list[1]) # IsPseudospecies(species_list[2])
    /\ Parts(species_list[1]) = Parts(species_list[2])
    /\ Len(RegisteredIndex) = 2
    /\ \A m \in 1..2 : Len(RegisteredIndex[m].eps) = 1

\* the species loop of an abstract is about to take its first line
AbstractLoopStarts == pc = "abstract_species" /\ s = 1

\* C16: when the species loop of an abstract starts (in a document with a
\* title and a well-formed species list), the index the abstract reads,
\* genus_to_species[j], exists, is empty, and is none of the dicts appended
\* for the titles, nor the one an earlier abstract used.
C16_AbstractOwnsIndex ==
    (WellFormedList /\ Len(titles) >= 1 /\ AbstractLoopStarts)
    => /\ j < Len(genus_to_species)
       /\ genus_to_species[j + 1] = <<>>
       /\ j + 1 > Len(titles)
       /\ j + 1 >= a

\* the species loop of the current abstract is exhausted
AbstractLoopDone == pc = "abstract_species" /\ s > Len(species_list)

\* after its species loop an abstract reads as the title that began with the
\* same text, unless line 154's index test decided a replacement in it
SameAsTitle ==
    (AbstractLoopDone /\ a <= Len(titles) /\ ~suppressed)
    => abstracts[a] = titles[a]

\* no step of the abstract part, PART 2.2 included, changes a title
AbstractPartKeepsTitles ==
    pc \in {"abstracts", "abstract_species", "abstract_short"} => titles' = titles

\* C17: the species loop leaves the same text in an abstract as in a title
\* that held the same text, for the same species list, unless the test that
\* only abstracts make (the normalised match is a key of the genus index)
\* fired; and the genus pass, like every step of the abstract part, leaves
\* the titles as they are.
C17_TitleAbstractAgree == []SameAsTitle /\ [][AbstractPartKeepsTitles]_vars

\* an abstract whose loop linked a species and emphasised a pseudospecies or
\* a repeat, the test of line 154 never firing
C17_Witness ==
    /\ AbstractLoopDone
    /\ a <= Len(titles)
    /\ ~suppressed
    /\ Contains(abstracts[a], TaxonGenus)
    /\ Contains(abstracts[a], IOpen)
    /\ abstracts[a] = titles[a]

\* no branch of get_species_link assigns link: no word, or three words with
\* sp. or spp. in the middle
Unclassified ==
    \/ Len(tokens_in) = 0
    \/ Len(tokens_in) = 3 /\ tokens_in[2] \in {RankSp, RankSpp}

\* what get_species_link returned for an unclassified phrase has no markup;
\* what it returned for any other phrase is a structured link of the first
\* word
ReturnedShape ==
    lpc = "return"
    => IF Unclassified
       THEN /\ ~Contains(link, SubSeq(TaxonGenus, 1, 6))
            /\ ~Contains(link, SpOpen)
            /\ ~is_species_link(link)
       ELSE /\ is_species_link(link)
            /\ StartsWithAt(link, 0, TaxonGenus \o tokens_in[1] \o AttrSpecies, FALSE)
            /\ Contains(link, AttrClose \o SpOpen \o tokens_in[1] \o SpClose)

\* the call on an unclassified phrase returns its argument
UnclassifiedUnaltered ==
    (lpc = "call" /\ Unclassified) => link' = link

\* C18: for a phrase of no word, or of 3 words the second of which is sp. or
\* spp., get_species_link returns its argument as it was, with no <taxon> and
\* no <sp> markup; for every other phrase it returns a structured link.
C18_UnclassifiedUnaltered == []ReturnedShape /\ [][UnclassifiedUnaltered]_vars

\* a phrase with spp. in the middle and a newline between its words has come
\* back as it was
C18_Witness ==
    /\ lpc = "return"
    /\ Len(tokens_in) = 3
    /\ tokens_in[2] = RankSpp
    /\ link = Join(tokens_in, <<"\n", " ">>)

\* C19: when a run of process.py has gone through the folder, every file
\* whose article id was not the placeholder when the run started is on disk
\* as it was: no attribute and no element text differs.
C19_ProcessedFilesSkipped ==
    dpc = "completed"
    => \A f \in 1..Len(folder) :
         already_processed(disk_before[f].elems[1]) => folder[f] = disk_before[f]

====
